---- MODULE Spec2Model ----
\* Storage indexer of Colmagzhan-back (src/main.py): the directory scan, the
\* category listing, the two published module globals and the read handlers.
EXTENDS Integers, Sequences, FiniteSets, TLC

\* ------------------------------------------------------------------------
\* Bounds
\* ------------------------------------------------------------------------
\* Largest number of directory entries (files and directories, at any depth)
\* of a generated storage directory.
MaxNodes == 4
\* Largest idCategory argument of a modelled GET /storage request.
MaxReqId == 1

\* ------------------------------------------------------------------------
\* The filesystem under STORAGE_DIR (the environment of the program)
\* ------------------------------------------------------------------------
\* A directory listing is a sequence of entries in os.scandir / os.listdir
\* order; every entry is a directory or a regular file (an entry that is
\* neither is skipped by lines 43 and 56 and leaves no trace). entry.name is
\* kept split as os.path.splitext splits it: name is the stem, ext the
\* extension after its dot ("" when there is none).
FileEntry(n, e, s) == [name |-> n, ext |-> e, dir |-> FALSE, size |-> s, kids |-> <<>>]
DirEntry(n, k) == [name |-> n, ext |-> "", dir |-> TRUE, size |-> 0, kids |-> k]

\* Python's None where an integer may stand (parent_category_id=None, the
\* categoryId of a root file, an absent idCategory request argument). Ids and
\* the request arguments of the model are all >= 0.
None == -1
\* Python's None where a node may stand (the return of find_category).
NoneNode == [none |-> TRUE]

EntryNames == <<"a", "b", "c", "d", "e", "f", "g", "h">>
EntryExts == <<"txt", "", "pdf">>
EntrySizes == <<2000000, 1048575, 1048576, 524288>>
Pick(seq, i) == seq[((i - 1) % Len(seq)) + 1]

\* Shapes of directory trees with exactly n entries; a leaf is a file or an
\* empty directory.
RECURSIVE ShapeForests(_), ShapeTrees(_)
ShapeForests(n) ==
    IF n = 0 THEN {<<>>}
    ELSE UNION { { <<t>> \o f : t \in ShapeTrees(k), f \in ShapeForests(n - k) } : k \in 1..n }
ShapeTrees(k) ==
    IF k = 1 THEN {[dir |-> FALSE, kids |-> <<>>], [dir |-> TRUE, kids |-> <<>>]}
    ELSE {[dir |-> TRUE, kids |-> c] : c \in ShapeForests(k - 1)}

\* A shape with names given by position, so names are unique in a directory.
RECURSIVE Label(_)
Label(f) ==
    [i \in 1..Len(f) |->
        IF f[i].dir THEN DirEntry(Pick(EntryNames, i), Label(f[i].kids))
        ELSE FileEntry(Pick(EntryNames, i), Pick(EntryExts, i), Pick(EntrySizes, i))]

GeneratedLayouts == { Label(s) : s \in UNION { ShapeForests(n) : n \in 0..MaxNodes } }

\* The layouts the running server's storage directory moves between.
ServerLayouts ==
    { <<DirEntry("Docs", <<DirEntry("Drafts", <<FileEntry("v1", "txt", 100)>>)>>)>>,
      <<FileEntry("readme", "", 10),
        DirEntry("Pics", <<>>),
        DirEntry("Docs", <<FileEntry("report", "pdf", 2000000)>>)>> }

\* The listing of the directory at relative path p (a sequence of directory
\* names) in layout l: ok is FALSE when some component is missing.
RECURSIVE Resolve(_, _)
Resolve(l, p) ==
    IF p = <<>> THEN [ok |-> TRUE, list |-> l]
    ELSE LET hits == { i \in 1..Len(l) : l[i].dir /\ l[i].name = Head(p) }
         IN IF hits = {} THEN [ok |-> FALSE, list |-> <<>>]
            ELSE Resolve(l[CHOOSE i \in hits : TRUE].kids, Tail(p))

\* What os.scandir yields for a listing: name and cached kind of each entry.
ScandirEntries(l) == [i \in 1..Len(l) |-> [name |-> l[i].name, ext |-> l[i].ext, dir |-> l[i].dir]]

\* entry.stat() / os.path.getsize(entry.path): the entries of directory p that
\* now carry the name of e.
StatHits(l, p, e) ==
    LET r == Resolve(l, p)
    IN IF r.ok THEN { i \in 1..Len(r.list) : r.list[i].name = e.name /\ r.list[i].ext = e.ext }
       ELSE {}
StatSize(l, p, e) == Resolve(l, p).list[CHOOSE i \in StatHits(l, p, e) : TRUE].size

\* ------------------------------------------------------------------------
\* Pure parts of scan_directory and find_category
\* ------------------------------------------------------------------------
\* Faulty variant of line 60: the comparison is <=.
FormatSizeInclusive(size) ==
    LET label == IF size <= 1024 * 1024 THEN "KB" ELSE "MB"
        den == IF label = "KB" THEN 1024 ELSE 1024 * 1024
        q == (size * 100) \div den
        r == (size * 100) % den
        h == IF 2 * r > den THEN q + 1
             ELSE IF 2 * r = den THEN q + (q % 2)
             ELSE q
    IN [hundredths |-> h, label |-> label]

\* f"{size:.2f} {size_label}" (lines 60, 61, 71): the magnitude in hundredths,
\* rounded to nearest with ties to even as Python's float formatting rounds
\* the exactly representable quotient, and the unit label.
FormatSize(size) ==
    LET label == IF size < 1024 * 1024 THEN "KB" ELSE "MB"
        den == IF label = "KB" THEN 1024 ELSE 1024 * 1024
        q == (size * 100) \div den
        r == (size * 100) % den
        h == IF 2 * r > den THEN q + 1
             ELSE IF 2 * r = den THEN q + (q % 2)
             ELSE q
    IN [hundredths |-> h, label |-> label]

\* The string of line 71: the digits of the magnitude with two decimals, a
\* space, the label.
FileSizeText(size) ==
    LET f == FormatSize(size)
    IN ToString(f.hundredths \div 100) \o "."
       \o ToString((f.hundredths % 100) \div 10) \o ToString(f.hundredths % 10)
       \o " " \o f.label

\* Faulty variant of line 44: the counter is used at every level.
CategoryIdFromCounter(is_root, counter, parent_category_id) == counter

\* category_id of line 44.
CategoryIdFor(is_root, counter, parent_category_id) ==
    IF is_root THEN counter ELSE parent_category_id

\* Faulty variant of lines 51 and 75: the increment is missing.
NextIdStuck(c) == c

\* id_counter += 1 (lines 51 and 75).
NextId(c) == c + 1

\* Faulty variant of lines 52-53: the counter moves for every directory.
NextCategoryCounterAnyDir(is_root, c) == c + 1

\* category_id_counter after lines 52-53.
NextCategoryCounter(is_root, c) == IF is_root THEN c + 1 ELSE c

\* Faulty variant of line 49: a folder gets its own id as idCategory.
DirItemOwnId(id, name, is_root, category_id) ==
    [id |-> id, name |-> name,
     type |-> IF is_root THEN "Category" ELSE "folder",
     idCategory |-> IF is_root THEN category_id ELSE id]

\* The dict of lines 45-50, before its 'children' key is set.
DirItem(id, name, is_root, category_id) ==
    [id |-> id, name |-> name,
     type |-> IF is_root THEN "Category" ELSE "folder",
     idCategory |-> category_id]

\* item['children'] = ... (line 54).
WithChildren(item, children) ==
    [id |-> item.id, name |-> item.name, type |-> item.type,
     idCategory |-> item.idCategory, children |-> children]

\* The dict of lines 65-74. fileDate and filepath are left out: they are
\* computed from the entry's timestamp and path and read by nothing here.
FileItem(id, e, size, parent_category_id) ==
    [id |-> id, name |-> e.name, type |-> "file",
     fileType |-> IF e.ext # "" THEN e.ext ELSE "unknown",
     fileSize |-> FileSizeText(size),
     categoryId |-> parent_category_id]

\* Faulty variant of find_category: line 30 compares the 'id' key.
RECURSIVE find_by_id(_, _)
find_by_id(data, category_id) ==
    IF data = <<>> THEN NoneNode
    ELSE LET item == Head(data)
         IN IF item.id = category_id
            THEN item
            ELSE LET found == IF "children" \in DOMAIN item
                              THEN find_by_id(item.children, category_id)
                              ELSE NoneNode
                 IN IF found # NoneNode THEN found
                    ELSE find_by_id(Tail(data), category_id)

\* Faulty variant of find_category: the items of a list are all compared
\* before the search goes into the children of any of them.
RECURSIVE find_category_siblings_first(_, _)
find_category_siblings_first(data, category_id) ==
    LET hits == { i \in 1..Len(data) :
                    "idCategory" \in DOMAIN data[i] /\ data[i].idCategory = category_id }
    IN IF hits # {} THEN data[CHOOSE i \in hits : \A j \in hits : i <= j]
       ELSE IF data = <<>> THEN NoneNode
       ELSE LET item == Head(data)
                found == IF "children" \in DOMAIN item
                         THEN find_category_siblings_first(item.children, category_id)
                         ELSE NoneNode
            IN IF found # NoneNode THEN found
               ELSE find_category_siblings_first(Tail(data), category_id)

\* find_category (lines 25-36) over a list of nodes.
RECURSIVE find_category(_, _)
find_category(data, category_id) ==
    IF data = <<>> THEN NoneNode
    ELSE LET item == Head(data)
         IN IF "idCategory" \in DOMAIN item /\ item.idCategory = category_id
            THEN item
            ELSE LET found == IF "children" \in DOMAIN item
                              THEN find_category(item.children, category_id)
                              ELSE NoneNode
                 IN IF found # NoneNode THEN found
                    ELSE find_category(Tail(data), category_id)

\* Faulty variant of line 85: idCategory is idx, not idx + 1.
BuildCategoriesZeroBased(folder_names) ==
    [idx \in 1..Len(folder_names) |->
        [idCategory |-> idx - 1, textCategory |-> folder_names[idx]]]

\* categories of line 85.
BuildCategories(folder_names) ==
    [idx \in 1..Len(folder_names) |->
        [idCategory |-> idx, textCategory |-> folder_names[idx]]]

\* Faulty variant of line 84: the os.path.isdir filter is missing.
FolderNamesUnfiltered(l) == [i \in 1..Len(l) |-> l[i].name]

\* folder_names of line 84: the names of the listing that are directories.
RECURSIVE FolderNames(_)
FolderNames(l) ==
    IF l = <<>> THEN <<>>
    ELSE IF Head(l).dir THEN <<Head(l).name>> \o FolderNames(Tail(l))
    ELSE FolderNames(Tail(l))

\* ------------------------------------------------------------------------
\* State
\* ------------------------------------------------------------------------
VARIABLES
    fs,                  \* the listing of STORAGE_DIR now
    rootOK,              \* whether STORAGE_DIR can be read now
    phase,               \* the main thread: "boot_categories", "boot_storage",
                         \* "boot_done" (lines 186-187 done), "serving"
    categories,          \* line 20
    storage_data,        \* line 21
    id_counter,          \* line 22
    category_id_counter, \* line 23
    pcCat,               \* update_categories: "idle", "listdir", "assign", "except"
    folder_names,        \* its local of line 84
    pcSto,               \* update_storage_data: "idle", "call", "scan", "assign", "except"
    stack,               \* the scan_directory calls in progress, outermost first
    retval,              \* what the outermost scan_directory call returned
    resp,                \* the last response a read handler returned
    published,           \* history: the values the refreshes last assigned
    stoPrior,            \* history: storage_data when the running update_storage_data began
    catPrior             \* history: categories when the running update_categories began

vars == <<fs, rootOK, phase, categories, storage_data, id_counter,
          category_id_counter, pcCat, folder_names, pcSto, stack, retval,
          resp, published, stoPrior, catPrior>>

envVars == <<fs, rootOK>>
catVars == <<pcCat, folder_names, catPrior>>
stoVars == <<id_counter, category_id_counter, pcSto, stack, retval, stoPrior>>

\* The values of the module globals after import (lines 20-23).
InitProgram ==
    /\ categories = <<>>
    /\ storage_data = <<>>
    /\ id_counter = 1
    /\ category_id_counter = 1
    /\ pcCat = "idle" /\ folder_names = <<>>
    /\ pcSto = "idle" /\ stack = <<>> /\ retval = <<>>
    /\ resp = [kind |-> "none", arg |-> None, body |-> <<>>]
    /\ published = [tree |-> <<>>, cats |-> <<>>, hasTree |-> FALSE, hasCats |-> FALSE]
    /\ stoPrior = <<>> /\ catPrior = <<>>

\* The server about to run line 186.
Init ==
    /\ fs \in ServerLayouts
    /\ rootOK \in BOOLEAN
    /\ phase = "boot_categories"
    /\ InitProgram

\* The refresh entrypoints and the read handlers applied to one storage
\* directory that does not change.
InitScan ==
    /\ fs \in GeneratedLayouts
    /\ rootOK \in BOOLEAN
    /\ phase = "serving"
    /\ InitProgram

\* Whether the directory at relative path p can be listed now.
Readable(p) == rootOK /\ Resolve(fs, p).ok

\* ------------------------------------------------------------------------
\* The main thread and the scheduler (lines 185-192)
\* ------------------------------------------------------------------------
\* A refresh function may be entered by the main thread at its turn in the
\* start-up sequence (lines 186, 187) and, once the scheduler runs, by the
\* interval job of lines 188/189. APScheduler keeps at most one instance of
\* a job running (max_instances defaults to 1) and runs different jobs on
\* different pool threads.
MayEnter(bootPhase) == phase = bootPhase \/ phase = "serving"

\* The phase after a refresh function returned to its caller.
PhaseAfter(bootPhase, nextPhase) == IF phase = bootPhase THEN nextPhase ELSE phase

\* Lines 188-192: the jobs are added, the scheduler and the server start.
main_serve ==
    /\ phase = "boot_done"
    /\ phase' = "serving"
    /\ UNCHANGED <<envVars, categories, storage_data, catVars, stoVars, resp, published>>

\* ------------------------------------------------------------------------
\* The environment: the storage directory changes under the program
\* ------------------------------------------------------------------------
storage_changes ==
    /\ \E l \in ServerLayouts, ok \in BOOLEAN :
          /\ <<l, ok>> # <<fs, rootOK>>
          /\ fs' = l
          /\ rootOK' = ok
    /\ UNCHANGED <<phase, categories, storage_data, catVars, stoVars, resp, published>>

\* ------------------------------------------------------------------------
\* update_categories (lines 80-88)
\* ------------------------------------------------------------------------
\* Faulty variant of lines 81-82: update_categories resets the id counters
\* as update_storage_data does at line 93.
update_categories_begin_resets_counters ==
    /\ pcCat = "idle"
    /\ MayEnter("boot_categories")
    /\ pcCat' = "listdir"
    /\ catPrior' = categories
    /\ id_counter' = 1
    /\ category_id_counter' = 1
    /\ UNCHANGED <<envVars, phase, categories, storage_data, folder_names,
                   pcSto, stack, retval, stoPrior, resp, published>>

\* Lines 80-82: the entry.
update_categories_begin ==
    /\ pcCat = "idle"
    /\ MayEnter("boot_categories")
    /\ pcCat' = "listdir"
    /\ catPrior' = categories
    /\ UNCHANGED <<envVars, phase, categories, storage_data, folder_names, stoVars,
                   resp, published>>

\* Line 84, os.listdir and the os.path.isdir filter succeed.
update_categories_listdir ==
    /\ pcCat = "listdir"
    /\ rootOK
    /\ folder_names' = FolderNames(fs)
    /\ pcCat' = "assign"
    /\ UNCHANGED <<envVars, phase, categories, storage_data, catPrior, stoVars,
                   resp, published>>

\* Line 84, os.listdir raises.
update_categories_raise ==
    /\ pcCat = "listdir"
    /\ ~rootOK
    /\ pcCat' = "except"
    /\ UNCHANGED <<envVars, phase, categories, storage_data, folder_names, catPrior,
                   stoVars, resp, published>>

\* Faulty variant of line 85: the new entries are added to the old list.
update_categories_assign_extend ==
    /\ pcCat = "assign"
    /\ categories' = categories \o BuildCategories(folder_names)
    /\ published' = [published EXCEPT !.cats = categories \o BuildCategories(folder_names),
                                      !.hasCats = TRUE]
    /\ pcCat' = "idle"
    /\ folder_names' = <<>>
    /\ catPrior' = <<>>
    /\ phase' = PhaseAfter("boot_categories", "boot_storage")
    /\ UNCHANGED <<envVars, storage_data, stoVars, resp>>

\* Lines 85-86, and the return.
update_categories_assign ==
    /\ pcCat = "assign"
    /\ categories' = BuildCategories(folder_names)
    /\ published' = [published EXCEPT !.cats = BuildCategories(folder_names),
                                      !.hasCats = TRUE]
    /\ pcCat' = "idle"
    /\ folder_names' = <<>>
    /\ catPrior' = <<>>
    /\ phase' = PhaseAfter("boot_categories", "boot_storage")
    /\ UNCHANGED <<envVars, storage_data, stoVars, resp>>

\* Lines 87-88, and the return.
update_categories_except ==
    /\ pcCat = "except"
    /\ pcCat' = "idle"
    /\ catPrior' = <<>>
    /\ phase' = PhaseAfter("boot_categories", "boot_storage")
    /\ UNCHANGED <<envVars, categories, storage_data, folder_names, stoVars,
                   resp, published>>

\* ------------------------------------------------------------------------
\* update_storage_data (lines 90-98) and scan_directory (lines 38-77)
\* ------------------------------------------------------------------------
\* A scan_directory call in progress: its arguments, the entries os.scandir
\* gave it, the index of the entry its loop is at, its result list, and the
\* item whose children it is waiting for (line 54).
Frame(relative_path, is_root, parent_category_id) ==
    [relative_path |-> relative_path,
     is_root |-> is_root,
     parent_category_id |-> parent_category_id,
     entries |-> ScandirEntries(Resolve(fs, relative_path).list),
     i |-> 1,
     result |-> <<>>,
     item |-> NoneNode]

Top == stack[Len(stack)]
AtEntry == pcSto = "scan" /\ stack # <<>> /\ Top.i <= Len(Top.entries)
Entry == Top.entries[Top.i]
ChildPath == Append(Top.relative_path, Entry.name)
ReplaceTop(f) == [stack EXCEPT ![Len(stack)] = f]

\* Line 93.
update_storage_data_begin ==
    /\ pcSto = "idle"
    /\ MayEnter("boot_storage")
    /\ id_counter' = 1
    /\ category_id_counter' = 1
    /\ pcSto' = "call"
    /\ stoPrior' = storage_data
    /\ UNCHANGED <<envVars, phase, categories, storage_data, catVars, stack, retval,
                   resp, published>>

\* Faulty variant of line 38: parent_category_id defaults to 0.
scan_directory_call_zero ==
    /\ pcSto = "call"
    /\ Readable(<<>>)
    /\ stack' = <<Frame(<<>>, TRUE, 0)>>
    /\ pcSto' = "scan"
    /\ UNCHANGED <<envVars, phase, categories, storage_data, catVars, id_counter,
                   category_id_counter, retval, stoPrior, resp, published>>

\* Line 95 calls scan_directory(STORAGE_DIR); lines 40-41 list the root.
scan_directory_call ==
    /\ pcSto = "call"
    /\ Readable(<<>>)
    /\ stack' = <<Frame(<<>>, TRUE, None)>>
    /\ pcSto' = "scan"
    /\ UNCHANGED <<envVars, phase, categories, storage_data, catVars, id_counter,
                   category_id_counter, retval, stoPrior, resp, published>>

\* Lines 43-54: the entry is a directory; the item is made, the counters move
\* and the recursive call lists the directory.
scan_directory_dir ==
    /\ AtEntry
    /\ Entry.dir
    /\ Readable(ChildPath)
    /\ LET category_id == CategoryIdFor(Top.is_root, category_id_counter, Top.parent_category_id)
           item == DirItem(id_counter, Entry.name, Top.is_root, category_id)
       IN /\ stack' = Append(ReplaceTop([Top EXCEPT !.item = item]),
                             Frame(ChildPath, FALSE, category_id))
          /\ id_counter' = NextId(id_counter)
          /\ category_id_counter' = NextCategoryCounter(Top.is_root, category_id_counter)
    /\ UNCHANGED <<envVars, phase, categories, storage_data, catVars, pcSto, retval,
                   stoPrior, resp, published>>

\* Faulty variant of lines 56-76: the root call builds its result in the
\* published list itself.
scan_directory_file_into_published ==
    /\ AtEntry
    /\ ~Entry.dir
    /\ rootOK /\ StatHits(fs, Top.relative_path, Entry) # {}
    /\ LET item == FileItem(id_counter, Entry, StatSize(fs, Top.relative_path, Entry),
                            Top.parent_category_id)
       IN /\ stack' = ReplaceTop([Top EXCEPT !.result = Append(@, item), !.i = @ + 1])
          /\ storage_data' = IF Top.is_root THEN Append(Top.result, item) ELSE storage_data
    /\ id_counter' = NextId(id_counter)
    /\ UNCHANGED <<envVars, phase, categories, catVars,
                   category_id_counter, pcSto, retval, stoPrior, resp, published>>

\* Lines 56-76: the entry is a file.
scan_directory_file ==
    /\ AtEntry
    /\ ~Entry.dir
    /\ rootOK /\ StatHits(fs, Top.relative_path, Entry) # {}
    /\ LET item == FileItem(id_counter, Entry, StatSize(fs, Top.relative_path, Entry),
                            Top.parent_category_id)
       IN stack' = ReplaceTop([Top EXCEPT !.result = Append(@, item), !.i = @ + 1])
    /\ id_counter' = NextId(id_counter)
    /\ UNCHANGED <<envVars, phase, categories, storage_data, catVars,
                   category_id_counter, pcSto, retval, stoPrior, resp, published>>

\* Line 77: the loop is over; the caller sets item['children'] and appends
\* the item (lines 54-55), or update_storage_data gets the tree (line 95).
scan_directory_return ==
    /\ pcSto = "scan" /\ stack # <<>>
    /\ Top.i > Len(Top.entries)
    /\ IF Len(stack) = 1
       THEN /\ retval' = Top.result
            /\ stack' = <<>>
            /\ pcSto' = "assign"
       ELSE LET caller == stack[Len(stack) - 1]
                done == [caller EXCEPT
                            !.result = Append(@, WithChildren(caller.item, Top.result)),
                            !.item = NoneNode,
                            !.i = @ + 1]
            IN /\ stack' = SubSeq(stack, 1, Len(stack) - 2) \o <<done>>
               /\ UNCHANGED <<retval, pcSto>>
    /\ UNCHANGED <<envVars, phase, categories, storage_data, catVars, id_counter,
                   category_id_counter, stoPrior, resp, published>>

\* os.scandir of the root (line 41) or of a subdirectory (line 54, after the
\* counters moved), or entry.stat() (line 57), raises: the exception leaves
\* every scan_directory call and reaches line 97.
scan_directory_raise ==
    /\ \/ /\ pcSto = "call"
          /\ ~Readable(<<>>)
          /\ UNCHANGED <<id_counter, category_id_counter>>
       \/ /\ AtEntry
          /\ Entry.dir
          /\ ~Readable(ChildPath)
          /\ id_counter' = NextId(id_counter)
          /\ category_id_counter' = NextCategoryCounter(Top.is_root, category_id_counter)
       \/ /\ AtEntry
          /\ ~Entry.dir
          /\ ~(rootOK /\ StatHits(fs, Top.relative_path, Entry) # {})
          /\ UNCHANGED <<id_counter, category_id_counter>>
    /\ stack' = <<>>
    /\ pcSto' = "except"
    /\ UNCHANGED <<envVars, phase, categories, storage_data, catVars, retval,
                   stoPrior, resp, published>>

\* Faulty variant of lines 92-95: without the global declaration the
\* assignment binds a local name.
update_storage_data_assign_local ==
    /\ pcSto = "assign"
    /\ published' = [published EXCEPT !.tree = retval, !.hasTree = TRUE]
    /\ retval' = <<>>
    /\ pcSto' = "idle"
    /\ stoPrior' = <<>>
    /\ phase' = PhaseAfter("boot_storage", "boot_done")
    /\ UNCHANGED <<envVars, categories, storage_data, catVars, id_counter,
                   category_id_counter, stack, resp>>

\* Lines 95-96: storage_data is bound to the returned list; the return.
update_storage_data_assign ==
    /\ pcSto = "assign"
    /\ storage_data' = retval
    /\ published' = [published EXCEPT !.tree = retval, !.hasTree = TRUE]
    /\ retval' = <<>>
    /\ pcSto' = "idle"
    /\ stoPrior' = <<>>
    /\ phase' = PhaseAfter("boot_storage", "boot_done")
    /\ UNCHANGED <<envVars, categories, catVars, id_counter, category_id_counter,
                   stack, resp>>

\* Faulty variant of lines 97-98: the handler empties the published tree.
update_storage_data_except_clears ==
    /\ pcSto = "except"
    /\ storage_data' = <<>>
    /\ pcSto' = "idle"
    /\ stoPrior' = <<>>
    /\ phase' = PhaseAfter("boot_storage", "boot_done")
    /\ UNCHANGED <<envVars, categories, catVars, id_counter,
                   category_id_counter, stack, retval, resp, published>>

\* Lines 97-98, and the return.
update_storage_data_except ==
    /\ pcSto = "except"
    /\ pcSto' = "idle"
    /\ stoPrior' = <<>>
    /\ phase' = PhaseAfter("boot_storage", "boot_done")
    /\ UNCHANGED <<envVars, categories, storage_data, catVars, id_counter,
                   category_id_counter, stack, retval, resp, published>>

\* scan_directory (lines 38-77) run from start to end over listing l with the
\* counters at idc and catc: the list it returns and the counters it leaves.
RECURSIVE scan_directory(_, _, _, _, _)
scan_directory(l, is_root, parent_category_id, idc, catc) ==
    IF l = <<>>
    THEN [result |-> <<>>, id_counter |-> idc, category_id_counter |-> catc]
    ELSE LET e == Head(l)
         IN IF e.dir
            THEN LET category_id == CategoryIdFor(is_root, catc, parent_category_id)
                     item == DirItem(idc, e.name, is_root, category_id)
                     sub == scan_directory(e.kids, FALSE, category_id, NextId(idc),
                                           NextCategoryCounter(is_root, catc))
                     rest == scan_directory(Tail(l), is_root, parent_category_id,
                                            sub.id_counter, sub.category_id_counter)
                 IN [rest EXCEPT !.result = <<WithChildren(item, sub.result)>> \o @]
            ELSE LET item == FileItem(idc, e, e.size, parent_category_id)
                     rest == scan_directory(Tail(l), is_root, parent_category_id,
                                            NextId(idc), catc)
                 IN [rest EXCEPT !.result = <<item>> \o @]

\* A second invocation of update_storage_data (lines 90-98) that runs from
\* start to end while the first one is between line 93 and its return: it
\* resets the module's counters (lines 92-93), scans with them, and binds
\* storage_data (line 95) or, when the root cannot be listed, reaches line 97.
update_storage_data_overlapping ==
    /\ pcSto \in {"call", "scan", "assign"}
    /\ IF Readable(<<>>)
       THEN LET pass == scan_directory(fs, TRUE, None, 1, 1)
            IN /\ storage_data' = pass.result
               /\ id_counter' = pass.id_counter
               /\ category_id_counter' = pass.category_id_counter
               /\ published' = [published EXCEPT !.tree = pass.result, !.hasTree = TRUE]
       ELSE /\ id_counter' = 1
            /\ category_id_counter' = 1
            /\ UNCHANGED <<storage_data, published>>
    /\ UNCHANGED <<envVars, phase, categories, catVars, pcSto, stack, retval,
                   stoPrior, resp>>

\* ------------------------------------------------------------------------
\* The read handlers (lines 151-163)
\* ------------------------------------------------------------------------
\* The idCategory arguments a request carries: absent, or an integer.
RequestArgs == {None} \cup (0..MaxReqId)

ErrorBody == [error |-> "Category not found"]

\* GET /categories.
get_categories ==
    /\ phase = "serving"
    /\ resp' = [kind |-> "categories", arg |-> None, body |-> categories]
    /\ UNCHANGED <<envVars, phase, categories, storage_data, catVars, stoVars, published>>

\* Faulty variant of lines 158-162: the None of find_category is returned
\* as it is (lines 161-162 are missing).
StorageBodyNoError(category_id) ==
    IF category_id = None THEN storage_data
    ELSE find_category(storage_data, category_id)

\* The data get_storage returns for argument category_id (lines 158-162).
StorageBody(category_id) ==
    IF category_id = None THEN storage_data
    ELSE LET data == find_category(storage_data, category_id)
         IN IF data = NoneNode THEN ErrorBody ELSE data

\* GET /storage.
get_storage ==
    /\ phase = "serving"
    /\ \E category_id \in RequestArgs :
          resp' = [kind |-> "storage", arg |-> category_id,
                   body |-> StorageBody(category_id)]
    /\ UNCHANGED <<envVars, phase, categories, storage_data, catVars, stoVars, published>>

\* ------------------------------------------------------------------------
\* Specifications
\* ------------------------------------------------------------------------
Refresh ==
    \/ update_categories_begin
    \/ update_categories_listdir
    \/ update_categories_raise
    \/ update_categories_assign
    \/ update_categories_except
    \/ update_storage_data_begin
    \/ scan_directory_call
    \/ scan_directory_dir
    \/ scan_directory_file
    \/ scan_directory_return
    \/ scan_directory_raise
    \/ update_storage_data_assign
    \/ update_storage_data_except

Read == get_categories \/ get_storage

\* The server: start-up, the two interval jobs, the readers, and a storage
\* directory that changes at any time.
Next == main_serve \/ storage_changes \/ Refresh \/ Read
Spec == Init /\ [][Next]_vars

\* The refresh entrypoints and the readers over one unchanging directory.
NextScan == Refresh \/ Read
SpecScan == InitScan /\ [][NextScan]_vars

\* The refresh entrypoints with update_storage_data called again while it
\* runs.
InitOverlap ==
    /\ fs \in ServerLayouts
    /\ rootOK \in BOOLEAN
    /\ phase = "serving"
    /\ InitProgram
NextOverlap == Refresh \/ update_storage_data_overlapping
SpecOverlap == InitOverlap /\ [][NextOverlap]_vars

\* find_category applied, by GET /storage, to any list of nodes: the shapes
\* of up to MaxNodes nodes, every node with an id of its own, directories
\* with idCategory 0 or 1, files with categoryId 0 or 1.
RECURSIVE NodesOf(_, _, _, _)
NodesOf(f, lab, is_root, start) ==
    IF f = <<>> THEN [items |-> <<>>, next |-> start]
    ELSE LET t == Head(f)
         IN IF t.dir
            THEN LET sub == NodesOf(t.kids, lab, FALSE, start + 1)
                     rest == NodesOf(Tail(f), lab, is_root, sub.next)
                     item == DirItem(start, Pick(EntryNames, start), is_root, lab[start])
                 IN [items |-> <<WithChildren(item, sub.items)>> \o rest.items,
                     next |-> rest.next]
            ELSE LET rest == NodesOf(Tail(f), lab, is_root, start + 1)
                     item == FileItem(start, FileEntry(Pick(EntryNames, start), "txt", 0),
                                      0, lab[start])
                 IN [items |-> <<item>> \o rest.items, next |-> rest.next]

LookupTrees(max) ==
    UNION { UNION { { NodesOf(s, lab, TRUE, 1).items : lab \in [1..n -> 0..1] } :
                    s \in ShapeForests(n) } : n \in 0..max }

InitLookup ==
    /\ fs = <<>>
    /\ rootOK = TRUE
    /\ phase = "serving"
    /\ categories = <<>>
    /\ storage_data \in LookupTrees(MaxNodes)
    /\ id_counter = 1
    /\ category_id_counter = 1
    /\ pcCat = "idle" /\ folder_names = <<>>
    /\ pcSto = "idle" /\ stack = <<>> /\ retval = <<>>
    /\ resp = [kind |-> "none", arg |-> None, body |-> <<>>]
    /\ published = [tree |-> storage_data, cats |-> <<>>, hasTree |-> TRUE, hasCats |-> FALSE]
    /\ stoPrior = <<>> /\ catPrior = <<>>

NextLookup == get_storage
SpecLookup == InitLookup /\ [][NextLookup]_vars

\* ------------------------------------------------------------------------
\* Vocabulary of the properties
\* ------------------------------------------------------------------------
\* The nodes of a tree in pre-order: a node, then its children in list
\* order, then its next sibling.
RECURSIVE PreOrder(_)
PreOrder(data) ==
    IF data = <<>> THEN <<>>
    ELSE LET item == Head(data)
         IN <<item>>
            \o (IF "children" \in DOMAIN item THEN PreOrder(item.children) ELSE <<>>)
            \o PreOrder(Tail(data))

\* The tree has one node per entry of the listing, at every depth, in
\* listing order: no branch is missing and none is there twice.
RECURSIVE Mirrors(_, _)
Mirrors(data, l) ==
    /\ Len(data) = Len(l)
    /\ \A i \in 1..Len(l) :
          /\ data[i].name = l[i].name
          /\ IF l[i].dir
             THEN "children" \in DOMAIN data[i] /\ Mirrors(data[i].children, l[i].kids)
             ELSE data[i].type = "file"

IsCategory(item) == item.type = "Category"
TopCategories(data) == SelectSeq(data, IsCategory)

\* The category id a node carries: idCategory of a directory node,
\* categoryId of a file node.
CategoryIdOf(item) ==
    IF "idCategory" \in DOMAIN item THEN item.idCategory ELSE item.categoryId

\* The trees scan passes have produced: the published one and the one a
\* finished pass is about to publish.
ProducedTrees == {storage_data, retval}

\* The number of levels of a tree.
RECURSIVE Depth(_)
Depth(data) ==
    IF data = <<>> THEN 0
    ELSE LET item == Head(data)
             below == IF "children" \in DOMAIN item THEN 1 + Depth(item.children) ELSE 1
             rest == Depth(Tail(data))
         IN IF below > rest THEN below ELSE rest

\* A tree without its numbers: shape, kinds, names, and for every node
\* whether its category id is the one of its enclosing Category (anc).
RECURSIVE Pattern(_, _)
Pattern(data, anc) ==
    [i \in 1..Len(data) |->
        LET item == data[i]
        IN IF "children" \in DOMAIN item
           THEN [name |-> item.name, type |-> item.type,
                 inherits |-> IsCategory(item) \/ item.idCategory = anc,
                 children |-> Pattern(item.children, item.idCategory)]
           ELSE [name |-> item.name, type |-> item.type,
                 inherits |-> item.categoryId = anc]]

\* The ids a lookup is asked for in the properties below.
LookupIds == 0..(MaxNodes + 1)

\* ------------------------------------------------------------------------
\* Properties
\* ------------------------------------------------------------------------
\* C1: while the server serves, the published tree and the published category
\* list come from one pass over one state of the storage directory (or are
\* the initial empty pair): the top-level Category nodes of the tree are, by
\* name and in order, the entries of the category list.
C1_PairFromOnePass ==
    phase = "serving" =>
        [i \in 1..Len(TopCategories(storage_data)) |-> TopCategories(storage_data)[i].name]
          = [i \in 1..Len(categories) |-> categories[i].textCategory]

\* C2: what GET /storage can see is the empty tree or a complete tree (one
\* node per entry of the directory, at every depth); storage_data changes in
\* no step but the assignment of a finished pass's result, and no step of a
\* walk in progress changes it.
C2_TreeComplete ==
    /\ storage_data = <<>> \/ Mirrors(storage_data, fs)
    /\ (resp.kind = "storage" /\ resp.arg = None) =>
          (resp.body = <<>> \/ Mirrors(resp.body, fs))
C2_TreeReplacedWhole ==
    /\ storage_data' # storage_data =>
          (pcSto = "assign" /\ stack = <<>> /\ storage_data' = retval)
    /\ stack' # stack => storage_data' = storage_data
C2_NoPartialTree == []C2_TreeComplete /\ [][C2_TreeReplacedWhole]_vars

\* C2 witness: a reader got the whole published tree while a later walk had
\* already built part of its result.
C2_Witness ==
    /\ pcSto = "scan" /\ stack # <<>> /\ stack[1].result # <<>>
    /\ Len(stack[1].result) < Len(fs)
    /\ storage_data # <<>>
    /\ resp.kind = "storage" /\ resp.arg = None /\ resp.body = storage_data

\* C3: when a refresh has failed, the value it would have replaced is the one
\* published when it began; the step that fails and the step that handles the
\* failure change neither published value, and the handler returns to its
\* caller (the start-up sequence goes on, the job ends).
C3_PriorKept ==
    /\ pcSto = "except" => storage_data = stoPrior
    /\ pcCat = "except" => categories = catPrior
C3_FailureSteps ==
    /\ (pcSto' # pcSto /\ (pcSto' = "except" \/ pcSto = "except")) =>
          UNCHANGED <<storage_data, categories>>
    /\ (pcCat' # pcCat /\ (pcCat' = "except" \/ pcCat = "except")) =>
          UNCHANGED <<storage_data, categories>>
    /\ (pcSto = "except" /\ pcSto' # pcSto) =>
          (pcSto' = "idle" /\ phase' = PhaseAfter("boot_storage", "boot_done"))
    /\ (pcCat = "except" /\ pcCat' # pcCat) =>
          (pcCat' = "idle" /\ phase' = PhaseAfter("boot_categories", "boot_storage"))
C3_FailedRefreshKeepsPublished == []C3_PriorKept /\ [][C3_FailureSteps]_vars

\* C3 witness: a walk failed after it had created nodes, with a tree and a
\* category list published before.
C3_Witness ==
    /\ pcSto = "except" /\ id_counter > 1
    /\ storage_data # <<>> /\ categories # <<>>
    /\ phase = "serving"

\* C4: in every produced tree, every node below a top-level Category carries
\* that Category's idCategory, at any depth.
C4_CategoryIdInherited ==
    \A tree \in ProducedTrees :
        \A i \in 1..Len(tree) :
            IsCategory(tree[i]) =>
                \A j \in 1..Len(PreOrder(tree[i].children)) :
                    CategoryIdOf(PreOrder(tree[i].children)[j]) = tree[i].idCategory

\* C4 witness: the published tree is a/b/c/d.txt, a Category, two nested
\* folders and a file.
C4_Witness ==
    /\ Depth(storage_data) = 4
    /\ IsCategory(storage_data[1])
    /\ PreOrder(storage_data)[4].type = "file"
    /\ PreOrder(storage_data)[4].categoryId = storage_data[1].idCategory

\* C5 as stated: every top-level Category node has idCategory = id.
C5_CategoryIdIsOwnId ==
    \A tree \in ProducedTrees :
        \A i \in 1..Len(tree) :
            IsCategory(tree[i]) => tree[i].idCategory = tree[i].id

\* C5 amended: the idCategory of a top-level Category node is its position
\* among the top-level Category nodes of its tree, and is at most its id.
C5_CategoryIdIsRank ==
    \A tree \in ProducedTrees :
        /\ \A k \in 1..Len(TopCategories(tree)) : TopCategories(tree)[k].idCategory = k
        /\ \A i \in 1..Len(tree) :
              IsCategory(tree[i]) => tree[i].idCategory <= tree[i].id

\* C5 witness: a published Category whose idCategory is not its id.
C5_Witness ==
    \E i \in 1..Len(storage_data) :
        /\ IsCategory(storage_data[i])
        /\ storage_data[i].idCategory # storage_data[i].id

\* C6: the ids of a produced tree are 1..N in pre-order.
C6_IdsPreOrder ==
    \A tree \in ProducedTrees :
        \A j \in 1..Len(PreOrder(tree)) : PreOrder(tree)[j].id = j

\* C6 witness: a published tree of files and directories on several levels.
C6_Witness ==
    /\ Len(PreOrder(storage_data)) = MaxNodes
    /\ Depth(storage_data) >= 2
    /\ Len(storage_data) >= 2
    /\ \E j \in 1..MaxNodes : PreOrder(storage_data)[j].type = "file"
    /\ \E j \in 1..MaxNodes : PreOrder(storage_data)[j].type = "folder"

\* C7 as stated: the lookup for k returns the node whose id is k, and
\* nothing when no node has id k.
C7_LookupFindsEveryId ==
    \A k \in LookupIds :
        LET p == PreOrder(storage_data)
            hits == { j \in 1..Len(p) : p[j].id = k }
        IN IF hits = {} THEN find_category(storage_data, k) = NoneNode
           ELSE \A j \in hits : find_category(storage_data, k) = p[j]

\* C7 amended: the lookup for k returns the k-th top-level Category node
\* (the node whose idCategory is k), and GET /storage answers "Category not
\* found" for every other k, also when k is the id of a node.
C7_LookupFindsCategories ==
    \A k \in LookupIds :
        LET cats == TopCategories(storage_data)
        IN IF k \in 1..Len(cats)
           THEN find_category(storage_data, k) = cats[k] /\ StorageBody(k) = cats[k]
           ELSE find_category(storage_data, k) = NoneNode /\ StorageBody(k) = ErrorBody

\* C7 witness: GET /storage?idCategory=k answered "Category not found" for
\* the id k of a published node.
C7_Witness ==
    /\ resp.kind = "storage" /\ resp.arg # None /\ resp.body = ErrorBody
    /\ \E j \in 1..Len(PreOrder(storage_data)) : PreOrder(storage_data)[j].id = resp.arg
    /\ StorageBody(resp.arg) = ErrorBody

\* C8: update_categories and update_storage_data are never both running.
C8_AtMostOneRefresh == ~(pcCat # "idle" /\ pcSto # "idle")

\* C9: over an unchanged directory, a finished pass publishes a tree with
\* the pattern (shape, kinds, names, category-id inheritance) of the tree
\* published before it, and update_categories publishes the list published
\* before it.
C9_Idempotent ==
    /\ (pcSto = "assign" /\ pcSto' = "idle" /\ published.hasTree) =>
          Pattern(storage_data', None) = Pattern(storage_data, None)
    /\ (pcCat = "assign" /\ pcCat' = "idle" /\ published.hasCats) =>
          categories' = categories
C9_RefreshIdempotent == [][C9_Idempotent]_vars

\* C9 witness: a second pass and a second listing have finished over a
\* directory with categories, folders and files.
C9_Witness ==
    /\ published.hasTree /\ pcSto = "assign" /\ retval = storage_data
    /\ Len(PreOrder(retval)) = MaxNodes /\ Depth(retval) >= 2
    /\ published.hasCats /\ pcCat = "assign"
    /\ BuildCategories(folder_names) = categories /\ categories # <<>>

\* C10: the published values are the ones the refreshes last assigned (the
\* initial empty ones before that), and every response of a read handler is
\* computed from them.
C10_GlobalsAreLatest ==
    /\ storage_data = published.tree
    /\ categories = published.cats
    /\ ~published.hasTree => storage_data = <<>>
    /\ ~published.hasCats => categories = <<>>
C10_ReadStep ==
    resp' # resp =>
        /\ resp'.kind = "categories" => resp'.body = published.cats
        /\ (resp'.kind = "storage" /\ resp'.arg = None) => resp'.body = published.tree
        /\ (resp'.kind = "storage" /\ resp'.arg # None) =>
              resp'.body = (LET data == find_category(published.tree, resp'.arg)
                            IN IF data = NoneNode THEN ErrorBody ELSE data)
C10_ReadsLatest == []C10_GlobalsAreLatest /\ [][C10_ReadStep]_vars

\* C10 witness: a reader got the tree the latest pass assigned.
C10_Witness ==
    /\ resp.kind = "storage" /\ resp.arg = None
    /\ resp.body # <<>> /\ resp.body = published.tree
    /\ Len(resp.body) = 3

\* The directories of a listing, in listing order.
IsDirEntry(e) == e.dir
RootDirs(l) == SelectSeq(l, IsDirEntry)

\* C11: the published category list has one entry per immediate
\* subdirectory of the root, in listing order, the k-th with idCategory k
\* and the k-th subdirectory's name; files are not listed and take no
\* number.
C11_CategoriesAreRootDirs ==
    published.hasCats =>
        /\ Len(categories) = Len(RootDirs(fs))
        /\ \A k \in 1..Len(categories) :
              /\ categories[k].idCategory = k
              /\ categories[k].textCategory = RootDirs(fs)[k].name

\* C11 witness: a list published for a root with a file before and between
\* its directories.
C11_Witness ==
    /\ published.hasCats /\ Len(categories) = 2
    /\ Len(fs) = 4 /\ ~fs[1].dir /\ fs[2].dir /\ ~fs[3].dir /\ fs[4].dir

\* C12: in every produced tree a file node at the top level has categoryId
\* None.
C12_RootFileHasNoCategory ==
    \A tree \in ProducedTrees :
        \A i \in 1..Len(tree) :
            tree[i].type = "file" => tree[i].categoryId = None

\* C12 witness: a published root file that follows a Category with a file
\* of its own.
C12_Witness ==
    /\ Len(storage_data) = 2
    /\ IsCategory(storage_data[1]) /\ storage_data[1].children # <<>>
    /\ storage_data[2].type = "file" /\ storage_data[2].categoryId = None
    /\ category_id_counter = 2

\* The nodes of the published tree, in pre-order, that have an idCategory
\* key with value k.
Matches(k) ==
    LET p == PreOrder(storage_data)
    IN { j \in 1..Len(p) : "idCategory" \in DOMAIN p[j] /\ p[j].idCategory = k }

\* C13: GET /storage returns the whole published tree when idCategory is
\* absent, a node of the tree that carries the requested idCategory (with
\* its children) when there is one, and the object {"error": "Category not
\* found"} when there is none; every request gets a response.
C13_ThreeAnswers ==
    \A k \in RequestArgs :
        IF k = None THEN StorageBody(k) = storage_data
        ELSE IF Matches(k) # {}
             THEN \E j \in Matches(k) : StorageBody(k) = PreOrder(storage_data)[j]
             ELSE StorageBody(k) = ErrorBody
C13_ResponseStep ==
    (resp' # resp /\ resp'.kind = "storage") =>
        /\ resp'.arg \in RequestArgs
        /\ resp'.body = StorageBody(resp'.arg)
C13_GetStorage == []C13_ThreeAnswers /\ [][C13_ResponseStep]_vars

\* C13 witness: the three answers are all possible for the published tree
\* and the last response is the error object.
C13_Witness ==
    /\ storage_data # <<>>
    /\ Matches(1) # {} /\ Matches(0) = {}
    /\ resp.kind = "storage" /\ resp.arg = 0 /\ resp.body = ErrorBody

\* The sizes, in bytes, the formatting is examined at: small files, both
\* sides of 1 MiB, and the sizes of the examples.
SizeSamples ==
    (0..2100) \cup ((1024 * 1024 - 1100)..(1024 * 1024 + 1100))
    \cup {524288, 2000000, 1572864, 1310720, 1315963, 1321206}

\* The formatting of S bytes: the label, and the magnitude as the number of
\* hundredths nearest to S/1024 or S/1048576.
SizeFormatOk(S) ==
    LET f == FormatSize(S)
        den == IF S < 1048576 THEN 1024 ELSE 1048576
        err == 100 * S - f.hundredths * den
    IN /\ f.label = (IF S < 1048576 THEN "KB" ELSE "MB")
       /\ 2 * err <= den /\ 2 * (0 - err) <= den

\* The file nodes of a tree carry the formatted size of their entries.
RECURSIVE SizesFormatted(_, _)
SizesFormatted(data, l) ==
    \A i \in 1..Len(l) :
        IF l[i].dir THEN SizesFormatted(data[i].children, l[i].kids)
        ELSE data[i].fileSize = FileSizeText(l[i].size)

\* C14: the label is KB exactly below 1,048,576 bytes and MB from there on,
\* the magnitude is S/1024 or S/1,048,576 to the nearest hundredth, written
\* with two decimals; 1,048,575 bytes is "1024.00 KB", 1,048,576 bytes
\* "1.00 MB", 2,000,000 bytes "1.91 MB"; every file node of a produced tree
\* carries the text for its own size.
C14_SamplesFormatted ==
    /\ \A S \in SizeSamples : SizeFormatOk(S)
    /\ FileSizeText(1048575) = "1024.00 KB"
    /\ FileSizeText(1048576) = "1.00 MB"
    /\ FileSizeText(2000000) = "1.91 MB"
    /\ FileSizeText(524288) = "512.00 KB"
    /\ FileSizeText(0) = "0.00 KB"
    /\ FileSizeText(1075) = "1.05 KB"
C14_SizeFormatting ==
    /\ C14_SamplesFormatted
    /\ \A tree \in ProducedTrees : tree # <<>> => SizesFormatted(tree, fs)

\* C14 witness: a published tree with files of 2,000,000, 1,048,575 and
\* 1,048,576 bytes.
C14_Witness ==
    /\ Len(storage_data) = 3
    /\ \A i \in 1..3 : storage_data[i].type = "file"
    /\ storage_data[1].fileSize = "1.91 MB"
    /\ storage_data[2].fileSize = "1024.00 KB"
    /\ storage_data[3].fileSize = "1.00 MB"

\* A whole pass over the directory gives the tree the step-by-step pass
\* publishes.
PassesAgree ==
    published.hasTree => storage_data = scan_directory(fs, TRUE, None, 1, 1).result

\* C15: every produced tree, also one built while update_storage_data was
\* invoked a second time, has the node ids 1..N in pre-order and the Category
\* ids 1..K in listing order.
C15_PassCountersPrivate ==
    \A tree \in ProducedTrees :
        /\ \A j \in 1..Len(PreOrder(tree)) : PreOrder(tree)[j].id = j
        /\ \A k \in 1..Len(TopCategories(tree)) : TopCategories(tree)[k].idCategory = k

\* The first node, in pre-order, of the published list whose idCategory is
\* k; NoneNode when there is none.
FirstMatch(k) ==
    IF Matches(k) = {} THEN NoneNode
    ELSE PreOrder(storage_data)[CHOOSE j \in Matches(k) : \A i \in Matches(k) : j <= i]

\* C16: find_category returns the first node in pre-order (a node, then its
\* children in list order, then its next sibling) whose idCategory is the
\* requested id, and None only when no node of the tree has it; GET /storage
\* answers with that node.
C16_FirstInPreOrder ==
    \A k \in LookupIds : find_category(storage_data, k) = FirstMatch(k)
C16_LookupStep ==
    (resp' # resp /\ resp'.arg # None) =>
        resp'.body = (IF Matches(resp'.arg) = {} THEN ErrorBody ELSE FirstMatch(resp'.arg))
C16_DepthFirstPreOrder == []C16_FirstInPreOrder /\ [][C16_LookupStep]_vars

\* C16 witness: the lookup returned a node below the first top-level node
\* although the second top-level node has the idCategory too.
C16_Witness ==
    /\ Len(storage_data) = 2
    /\ "children" \in DOMAIN storage_data[1]
    /\ storage_data[1].idCategory = 0
    /\ Len(storage_data[1].children) = 2
    /\ "idCategory" \in DOMAIN storage_data[1].children[2]
    /\ storage_data[1].children[2].idCategory = 1
    /\ "idCategory" \in DOMAIN storage_data[2]
    /\ storage_data[2].idCategory = 1
    /\ resp.kind = "storage" /\ resp.arg = 1
    /\ resp.body = storage_data[1].children[2]

\* C17: on every produced tree and for every requested id, find_category
\* returns None or a top-level Category node, never a folder or a file: no
\* file has an idCategory key, and every folder has the idCategory of a
\* Category before it in pre-order.
C17_LookupReturnsCategoryOrNone ==
    \A tree \in ProducedTrees :
        /\ \A k \in LookupIds :
              LET r == find_category(tree, k)
              IN IF r = NoneNode THEN TRUE
                 ELSE IsCategory(r) /\ \E i \in 1..Len(tree) : tree[i] = r
        /\ \A j \in 1..Len(PreOrder(tree)) :
              LET p == PreOrder(tree)
              IN /\ p[j].type = "file" => "idCategory" \notin DOMAIN p[j]
                 /\ p[j].type = "folder" =>
                       \E i \in 1..(j - 1) :
                           IsCategory(p[i]) /\ p[i].idCategory = p[j].idCategory

\* C17 witness: the published tree has a folder and a file, and a lookup
\* for the idCategory they carry was answered with their Category.
C17_Witness ==
    /\ storage_data # <<>>
    /\ IsCategory(storage_data[1])
    /\ resp.kind = "storage" /\ resp.arg = 1
    /\ resp.body = storage_data[1]
    /\ \E j \in 1..Len(PreOrder(storage_data)) :
          /\ PreOrder(storage_data)[j].type = "folder"
          /\ PreOrder(storage_data)[j].idCategory = 1
    /\ \E j \in 1..Len(PreOrder(storage_data)) :
          /\ PreOrder(storage_data)[j].type = "file"
          /\ PreOrder(storage_data)[j].categoryId = 1

\* C18: once both refreshes have published over the unchanged directory, the
\* lookup in the published tree for the idCategory of any entry of the
\* published category list returns the top-level Category node with that
\* entry's name.
C18_NumberingsAgree ==
    (published.hasTree /\ published.hasCats) =>
        \A n \in 1..Len(categories) :
            LET r == find_category(storage_data, categories[n].idCategory)
            IN IF r = NoneNode THEN FALSE
               ELSE /\ IsCategory(r)
                    /\ r.name = categories[n].textCategory
                    /\ \E i \in 1..Len(storage_data) : storage_data[i] = r

\* C18 witness: both are published for a root with a file, a directory, a
\* file and a directory, and the second category's node has id 3.
C18_Witness ==
    /\ published.hasTree /\ published.hasCats
    /\ Len(categories) = 2 /\ Len(storage_data) = 4
    /\ storage_data[1].type = "file" /\ storage_data[3].type = "file"
    /\ find_category(storage_data, categories[2].idCategory) = storage_data[4]
    /\ storage_data[4].id = 4 /\ storage_data[4].idCategory = 2

\* C19: a step of update_categories leaves the published tree and both id
\* counters as they are, a step of update_storage_data leaves the published
\* category list as it is, and a read changes none of the four; the category
\* list changes only at line 85, the tree only at line 95, the counters only
\* at lines 93 and 51-53, 75.
C19_FrameStep ==
    /\ (pcCat' # pcCat \/ folder_names' # folder_names) =>
          UNCHANGED <<storage_data, id_counter, category_id_counter>>
    /\ (pcSto' # pcSto \/ stack' # stack \/ retval' # retval) =>
          UNCHANGED categories
    /\ resp' # resp =>
          UNCHANGED <<categories, storage_data, id_counter, category_id_counter>>
    /\ categories' # categories => pcCat = "assign" /\ pcCat' = "idle"
    /\ storage_data' # storage_data => pcSto = "assign" /\ pcSto' = "idle"
    /\ (id_counter' # id_counter \/ category_id_counter' # category_id_counter) =>
          /\ pcSto \in {"idle", "scan"}
          /\ pcSto' # pcSto \/ stack' # stack
C19_RefreshesIndependent == [][C19_FrameStep]_vars

\* C19 witness: a pass is under way with its counters advanced while
\* update_categories is between its listing and its assignment, both have
\* published before, and a reader has been answered.
C19_Witness ==
    /\ pcSto = "scan" /\ id_counter > 2 /\ category_id_counter > 1
    /\ pcCat = "assign"
    /\ categories # <<>> /\ storage_data # <<>>
    /\ resp.kind = "categories" /\ resp.body = categories

====
